---- MODULE Spec2Model ----
(***************************************************************************)
(* A model of vtzero's geometry decoder (include/vtzero/geometry.hpp):     *)
(* the command decoder (next_command, next_point, done), the geometric     *)
(* attribute parser and readers, and the three drivers decode_point,       *)
(* decode_linestring and decode_polygon, which call back into a visitor.   *)
(*                                                                         *)
(* The geometry stream is an iterator range the decoder only reads         *)
(* forward.  The model keeps the words of the range that the decoder has   *)
(* been able to look at (geom) and whether the range ends there (closed);  *)
(* the caller's range is extended word by word (Supply) or ended (Close)   *)
(* exactly when the decoder's next test needs to know.  Every stream of    *)
(* at most lim.glen words is explored this way.  The elevation and         *)
(* attribute ranges are fixed by Init.                                     *)
(***************************************************************************)
EXTENDS Integers, Sequences, FiniteSets

VARIABLES
    kind,                   \* which driver runs: "point", "linestring", "polygon"
    pc,                     \* the driver's position
    outcome,                \* "running", "ok", or the failure that ended the call
    geom,                   \* the geometry range, as far as it is fixed
    closed,                 \* TRUE when the geometry range ends at Len(geom)
    m_geom_it,              \* index into geom of the next word to read
    Dimensions,             \* template parameter: 2 or 3
    elev,                   \* the elevation range
    m_elev_it,              \* index into elev of the next value to read
    dummyAttr,              \* TRUE when TAttrIterator is dummy_attr_iterator
    attr,                   \* the attribute range
    MaxGeometricAttributes, \* template parameter: number of attribute slots
    m_attrs,                \* geometric_attribute_collection::m_attrs
    m_size,                 \* geometric_attribute_collection::m_size
    m_cursor,               \* accumulated unscaled_point
    m_max_count,            \* maximum value of m_count
    m_count,                \* remaining repeat count
    first_point,            \* decode_linestring: the converted MoveTo point
    start_point,            \* decode_polygon: the ring's start point
    last_point,             \* decode_polygon: the previous ring point
    sum,                    \* decode_polygon: the running shoelace sum
    trace,                  \* the visitor callbacks made so far, in order
    cmds,                   \* the words next_command has examined, in order
    nconvert,               \* number of convert calls made on the visitor
    last_command,           \* how the most recent next_command call ended
    points,                 \* the points next_point has returned, in order
    lim                     \* the bounds of the geometry range of this run

vars == <<kind, pc, outcome, geom, closed, m_geom_it, Dimensions, elev,
          m_elev_it, dummyAttr, attr, MaxGeometricAttributes, m_attrs, m_size,
          m_cursor, m_max_count, m_count, first_point, start_point,
          last_point, sum, trace, cmds, nconvert, last_command,
          points, lim>>

inputVars == <<kind, Dimensions, elev, dummyAttr, attr,
               MaxGeometricAttributes, m_max_count, lim>>

polyVars == <<start_point, last_point, sum>>

-----------------------------------------------------------------------------
(* Bounds of the model *)

MaxGeomLen == 12
ShortGeomLen == 5
MaxElevLen == 2
MaxAttrLen == 5
MaxAttrSlots == 2
MaxCountBound == 2

\* The width in bits of the coordinates x and y (int32_t in the code); the
\* shoelace sum (int64_t in the code) has twice that width.
CoordBits == 4

-----------------------------------------------------------------------------
(* Command words, zigzag, points *)

MOVE_TO == 1
LINE_TO == 2
CLOSE_PATH == 7

get_command_id(w) == w % 8

get_command_count(w) == w \div 8

CommandWord(id, count) == count * 8 + id

decode_zigzag32(v) == IF v % 2 = 0 THEN v \div 2 ELSE -((v + 1) \div 2)

decode_zigzag64(v) == IF v % 2 = 0 THEN v \div 2 ELSE -((v + 1) \div 2)

InvalidIndex == -1

unscaled_point(x, y, z) == [x |-> x, y |-> y, z |-> z]

Origin == unscaled_point(0, 0, 0)

\* The visitor's coordinate conversion: doubles the planar coordinates.
convert(p) == [x |-> 2 * p.x, y |-> 2 * p.y, z |-> p.z]

det(a, b) == a.x * b.y - b.x * a.y

\* The values of a signed integer of the given width.
MinSigned(bits) == -(2 ^ (bits - 1))

MaxSigned(bits) == 2 ^ (bits - 1) - 1

\* Whether v is a value of the coordinate type.
InCoordRange(v) == MinSigned(CoordBits) <= v /\ v <= MaxSigned(CoordBits)

\* Whether v is a value of the type of the shoelace sum.
InSumRange(v) ==
    MinSigned(2 * CoordBits) <= v /\ v <= MaxSigned(2 * CoordBits)

\* ring_type with zero area taken for outer.
ring_type_nonstrict(s) == IF s >= 0 THEN "outer" ELSE "inner"

ring_type(s) == IF s > 0 THEN "outer" ELSE IF s < 0 THEN "inner" ELSE "invalid"

-----------------------------------------------------------------------------
(* Visitor callbacks, as entries of trace *)

Blank == [cb |-> "", n |-> 0, p |-> Origin, raw |-> Origin,
          key |-> 0, scaling |-> 0, val |-> 0, rt |-> ""]

EvBegin(cb, n) == [Blank EXCEPT !.cb = cb, !.n = n]

\* A point callback: p is the converted point handed over, raw the point
\* convert was applied to.
EvPoint(cb, p, raw) == [Blank EXCEPT !.cb = cb, !.p = p, !.raw = raw]

EvEnd(cb, rt) == [Blank EXCEPT !.cb = cb, !.rt = rt]

call_points_attr(key, scaling, val) ==
    [Blank EXCEPT !.cb = "attribute_value", !.key = key, !.scaling = scaling,
                  !.val = val]

call_points_null_attr(key) == [Blank EXCEPT !.cb = "attribute_null", !.key = key]

-----------------------------------------------------------------------------
(* Geometric attributes *)

\* A default-constructed geometric_attribute.
geometric_attribute ==
    [it |-> 0, key |-> InvalidIndex, scaling |-> InvalidIndex, count |-> 0,
     value |-> 0]

\* get_next_value decoding the raw value without taking off the offset 1.
get_next_value_raw(a) ==
    IF a.count = 0
    THEN [a |-> a, ret |-> FALSE, past |-> FALSE]
    ELSE IF a.it > Len(attr)
    THEN [a |-> [a EXCEPT !.it = a.it + 1, !.count = a.count - 1],
          ret |-> FALSE, past |-> TRUE]
    ELSE LET raw_value == attr[a.it]
             b == [a EXCEPT !.it = a.it + 1, !.count = a.count - 1]
         IN  IF raw_value = 0
             THEN [a |-> b, ret |-> FALSE, past |-> FALSE]
             ELSE [a |-> [b EXCEPT !.value =
                                b.value + decode_zigzag64(raw_value)],
                   ret |-> TRUE, past |-> FALSE]

\* get_next_value on attribute a: the attribute afterwards, the value
\* returned, and whether the read was past the end of the attribute range.
get_next_value(a) ==
    IF a.count = 0
    THEN [a |-> a, ret |-> FALSE, past |-> FALSE]
    ELSE IF a.it > Len(attr)
    THEN [a |-> [a EXCEPT !.it = a.it + 1, !.count = a.count - 1],
          ret |-> FALSE, past |-> TRUE]
    ELSE LET raw_value == attr[a.it]
             b == [a EXCEPT !.it = a.it + 1, !.count = a.count - 1]
         IN  IF raw_value = 0
             THEN [a |-> b, ret |-> FALSE, past |-> FALSE]
             ELSE [a |-> [b EXCEPT !.value =
                                b.value + decode_zigzag64(raw_value - 1)],
                   ret |-> TRUE, past |-> FALSE]

\* The constructor's inner loop without the test for the end of the range.
SkipValues_unchecked(it, attr_count) == [ok |-> TRUE, it |-> it + attr_count]

\* The constructor's inner loop: skip attr_count values starting at it.
RECURSIVE SkipValues(_, _)
SkipValues(it, attr_count) ==
    IF attr_count = 0
    THEN [ok |-> TRUE, it |-> it]
    ELSE IF attr_count - 1 # 0 /\ it + 1 > Len(attr)
    THEN [ok |-> FALSE, it |-> it + 1]
    ELSE SkipValues(it + 1, attr_count - 1)

\* The constructor's outer loop accepting a range that ends right after a
\* scaling reference.
RECURSIVE ParseAttributes_lenient(_, _, _)
ParseAttributes_lenient(it, attrs, size) ==
    IF it > Len(attr) \/ size >= MaxGeometricAttributes
    THEN [ok |-> TRUE, attrs |-> attrs, size |-> size]
    ELSE LET complex_value == attr[it]
             failed == [ok |-> FALSE, attrs |-> attrs, size |-> size]
         IN  IF complex_value % 16 # 10 THEN failed
             ELSE IF it + 1 > Len(attr) THEN failed
             ELSE IF it + 2 > Len(attr) THEN failed
             ELSE LET attr_count == attr[it + 1]
                      scaling == attr[it + 2]
                      registered ==
                          [attrs EXCEPT ![size + 1] =
                              [it |-> it + 3, key |-> complex_value \div 16,
                               scaling |-> scaling, count |-> attr_count,
                               value |-> 0]]
                      skipped == SkipValues(it + 3, attr_count)
                  IN  IF ~skipped.ok
                      THEN [ok |-> FALSE, attrs |-> registered,
                            size |-> size + 1]
                      ELSE ParseAttributes_lenient(skipped.it, registered,
                                                   size + 1)

\* The constructor's outer loop, from position it with size slots filled.
RECURSIVE ParseAttributes(_, _, _)
ParseAttributes(it, attrs, size) ==
    IF it > Len(attr) \/ size >= MaxGeometricAttributes
    THEN [ok |-> TRUE, attrs |-> attrs, size |-> size]
    ELSE LET complex_value == attr[it]
             failed == [ok |-> FALSE, attrs |-> attrs, size |-> size]
         IN  IF complex_value % 16 # 10 THEN failed
             ELSE IF it + 1 > Len(attr) THEN failed
             ELSE IF it + 2 > Len(attr) THEN failed
             ELSE IF it + 3 > Len(attr) THEN failed
             ELSE LET attr_count == attr[it + 1]
                      scaling == attr[it + 2]
                      registered ==
                          [attrs EXCEPT ![size + 1] =
                              [it |-> it + 3, key |-> complex_value \div 16,
                               scaling |-> scaling, count |-> attr_count,
                               value |-> 0]]
                      skipped == SkipValues(it + 3, attr_count)
                  IN  IF ~skipped.ok
                      THEN [ok |-> FALSE, attrs |-> registered,
                            size |-> size + 1]
                      ELSE ParseAttributes(skipped.it, registered, size + 1)

\* Construction of the collection; with the dummy iterator the collection
\* is empty (begin() = end()), otherwise it holds all the slots.
geometric_attribute_collection ==
    IF dummyAttr
    THEN [ok |-> TRUE, attrs |-> <<>>, size |-> 0]
    ELSE ParseAttributes(1, [i \in 1..MaxGeometricAttributes |->
                                geometric_attribute], 0)

\* The loop over the collection after a vertex: the attributes afterwards
\* and the callbacks made.
RECURSIVE AttributeLoop(_, _, _, _)
AttributeLoop(attrs, i, evs, past) ==
    IF i > Len(attrs)
    THEN [attrs |-> attrs, evs |-> evs, past |-> past]
    ELSE LET g == get_next_value(attrs[i])
             ev == IF g.ret
                   THEN call_points_attr(g.a.key, g.a.scaling, g.a.value)
                   ELSE call_points_null_attr(g.a.key)
         IN  AttributeLoop([attrs EXCEPT ![i] = g.a], i + 1,
                           Append(evs, ev), past \/ g.past)

-----------------------------------------------------------------------------
(* The command decoder *)

count == m_count

AtEnd == m_geom_it > Len(geom)

\* done looking at the geometry range only.
done_geometry_only == AtEnd

done == AtEnd /\ m_elev_it > Len(elev)

\* next_command without the test of a ClosePath word's count.
next_command_any_close(expected_command_id) ==
    IF m_count # 0
    THEN [r |-> "assert", count |-> m_count, it |-> m_geom_it]
    ELSE IF AtEnd
    THEN [r |-> "false", count |-> m_count, it |-> m_geom_it]
    ELSE LET w == geom[m_geom_it]
         IN  IF get_command_id(w) # expected_command_id
             THEN [r |-> "throw", count |-> m_count, it |-> m_geom_it]
             ELSE IF expected_command_id = CLOSE_PATH
             THEN [r |-> "true", count |-> m_count, it |-> m_geom_it + 1]
             ELSE IF get_command_count(w) > m_max_count
             THEN [r |-> "throw", count |-> get_command_count(w),
                   it |-> m_geom_it]
             ELSE [r |-> "true", count |-> get_command_count(w),
                   it |-> m_geom_it + 1]

\* next_command without the test of the count against the maximum.
next_command_unbounded(expected_command_id) ==
    IF m_count # 0
    THEN [r |-> "assert", count |-> m_count, it |-> m_geom_it]
    ELSE IF AtEnd
    THEN [r |-> "false", count |-> m_count, it |-> m_geom_it]
    ELSE LET w == geom[m_geom_it]
         IN  IF get_command_id(w) # expected_command_id
             THEN [r |-> "throw", count |-> m_count, it |-> m_geom_it]
             ELSE IF expected_command_id = CLOSE_PATH
             THEN IF get_command_count(w) # 1
                  THEN [r |-> "throw", count |-> m_count, it |-> m_geom_it]
                  ELSE [r |-> "true", count |-> m_count, it |-> m_geom_it + 1]
             ELSE [r |-> "true", count |-> get_command_count(w),
                   it |-> m_geom_it + 1]

\* next_command treating the end of the range as an error.
next_command_end_throws(expected_command_id) ==
    IF m_count # 0
    THEN [r |-> "assert", count |-> m_count, it |-> m_geom_it]
    ELSE IF AtEnd
    THEN [r |-> "throw", count |-> m_count, it |-> m_geom_it]
    ELSE LET w == geom[m_geom_it]
         IN  IF get_command_id(w) # expected_command_id
             THEN [r |-> "throw", count |-> m_count, it |-> m_geom_it]
             ELSE IF expected_command_id = CLOSE_PATH
             THEN IF get_command_count(w) # 1
                  THEN [r |-> "throw", count |-> m_count, it |-> m_geom_it]
                  ELSE [r |-> "true", count |-> m_count, it |-> m_geom_it + 1]
             ELSE IF get_command_count(w) > m_max_count
             THEN [r |-> "throw", count |-> get_command_count(w),
                   it |-> m_geom_it]
             ELSE [r |-> "true", count |-> get_command_count(w),
                   it |-> m_geom_it + 1]

\* next_command without the test of the command id.
next_command_any_id(expected_command_id) ==
    IF m_count # 0
    THEN [r |-> "assert", count |-> m_count, it |-> m_geom_it]
    ELSE IF AtEnd
    THEN [r |-> "false", count |-> m_count, it |-> m_geom_it]
    ELSE LET w == geom[m_geom_it]
         IN  IF expected_command_id = CLOSE_PATH
             THEN IF get_command_count(w) # 1
                  THEN [r |-> "throw", count |-> m_count, it |-> m_geom_it]
                  ELSE [r |-> "true", count |-> m_count, it |-> m_geom_it + 1]
             ELSE IF get_command_count(w) > m_max_count
             THEN [r |-> "throw", count |-> get_command_count(w),
                   it |-> m_geom_it]
             ELSE [r |-> "true", count |-> get_command_count(w),
                   it |-> m_geom_it + 1]

\* next_command refusing a count equal to the maximum.
next_command_below_max(expected_command_id) ==
    IF m_count # 0
    THEN [r |-> "assert", count |-> m_count, it |-> m_geom_it]
    ELSE IF AtEnd
    THEN [r |-> "false", count |-> m_count, it |-> m_geom_it]
    ELSE LET w == geom[m_geom_it]
         IN  IF get_command_id(w) # expected_command_id
             THEN [r |-> "throw", count |-> m_count, it |-> m_geom_it]
             ELSE IF expected_command_id = CLOSE_PATH
             THEN IF get_command_count(w) # 1
                  THEN [r |-> "throw", count |-> m_count, it |-> m_geom_it]
                  ELSE [r |-> "true", count |-> m_count, it |-> m_geom_it + 1]
             ELSE IF get_command_count(w) >= m_max_count
             THEN [r |-> "throw", count |-> get_command_count(w),
                   it |-> m_geom_it]
             ELSE [r |-> "true", count |-> get_command_count(w),
                   it |-> m_geom_it + 1]

\* next_command(expected_command_id): r is "assert", "false", "throw" or
\* "true"; count and it are m_count and m_geom_it afterwards.
next_command(expected_command_id) ==
    IF m_count # 0
    THEN [r |-> "assert", count |-> m_count, it |-> m_geom_it]
    ELSE IF AtEnd
    THEN [r |-> "false", count |-> m_count, it |-> m_geom_it]
    ELSE LET w == geom[m_geom_it]
         IN  IF get_command_id(w) # expected_command_id
             THEN [r |-> "throw", count |-> m_count, it |-> m_geom_it]
             ELSE IF expected_command_id = CLOSE_PATH
             THEN IF get_command_count(w) # 1
                  THEN [r |-> "throw", count |-> m_count, it |-> m_geom_it]
                  ELSE [r |-> "true", count |-> m_count, it |-> m_geom_it + 1]
             ELSE IF get_command_count(w) > m_max_count
             THEN [r |-> "throw", count |-> get_command_count(w),
                   it |-> m_geom_it]
             ELSE [r |-> "true", count |-> get_command_count(w),
                   it |-> m_geom_it + 1]

\* The words next_command has examined after a call of it.
Examined == IF m_count = 0 /\ ~AtEnd THEN Append(cmds, geom[m_geom_it]) ELSE cmds

\* next_point counting a point twice.
next_point_twice ==
    IF m_count = 0
    THEN [r |-> "assert", cursor |-> m_cursor, it |-> m_geom_it,
          eit |-> m_elev_it, count |-> m_count]
    ELSE IF m_geom_it > Len(geom) \/ m_geom_it + 1 > Len(geom)
    THEN [r |-> "throw", cursor |-> m_cursor, it |-> m_geom_it,
          eit |-> m_elev_it, count |-> m_count]
    ELSE LET readz == Dimensions = 3 /\ m_elev_it <= Len(elev)
         IN  [r |-> "point",
              cursor |-> unscaled_point(
                  m_cursor.x + decode_zigzag32(geom[m_geom_it]),
                  m_cursor.y + decode_zigzag32(geom[m_geom_it + 1]),
                  IF readz THEN m_cursor.z + elev[m_elev_it] ELSE m_cursor.z),
              it |-> m_geom_it + 2,
              eit |-> IF readz THEN m_elev_it + 1 ELSE m_elev_it,
              count |-> IF m_count > 1 THEN m_count - 2 ELSE 0]

\* next_point taking the decoded pair for the point itself.
next_point_absolute ==
    IF m_count = 0
    THEN [r |-> "assert", cursor |-> m_cursor, it |-> m_geom_it,
          eit |-> m_elev_it, count |-> m_count]
    ELSE IF m_geom_it > Len(geom) \/ m_geom_it + 1 > Len(geom)
    THEN [r |-> "throw", cursor |-> m_cursor, it |-> m_geom_it,
          eit |-> m_elev_it, count |-> m_count]
    ELSE LET readz == Dimensions = 3 /\ m_elev_it <= Len(elev)
         IN  [r |-> "point",
              cursor |-> unscaled_point(
                  decode_zigzag32(geom[m_geom_it]),
                  decode_zigzag32(geom[m_geom_it + 1]),
                  IF readz THEN m_cursor.z + elev[m_elev_it] ELSE m_cursor.z),
              it |-> m_geom_it + 2,
              eit |-> IF readz THEN m_elev_it + 1 ELSE m_elev_it,
              count |-> m_count - 1]

\* next_point counting the point it could not read.
next_point_counts_failure ==
    IF m_count = 0
    THEN [r |-> "assert", cursor |-> m_cursor, it |-> m_geom_it,
          eit |-> m_elev_it, count |-> m_count]
    ELSE IF m_geom_it > Len(geom) \/ m_geom_it + 1 > Len(geom)
    THEN [r |-> "throw", cursor |-> m_cursor, it |-> m_geom_it,
          eit |-> m_elev_it, count |-> m_count - 1]
    ELSE LET readz == Dimensions = 3 /\ m_elev_it <= Len(elev)
         IN  [r |-> "point",
              cursor |-> unscaled_point(
                  m_cursor.x + decode_zigzag32(geom[m_geom_it]),
                  m_cursor.y + decode_zigzag32(geom[m_geom_it + 1]),
                  IF readz THEN m_cursor.z + elev[m_elev_it] ELSE m_cursor.z),
              it |-> m_geom_it + 2,
              eit |-> IF readz THEN m_elev_it + 1 ELSE m_elev_it,
              count |-> m_count - 1]

\* next_point zigzag-decoding the elevation value.
next_point_zigzag_elevation ==
    IF m_count = 0
    THEN [r |-> "assert", cursor |-> m_cursor, it |-> m_geom_it,
          eit |-> m_elev_it, count |-> m_count]
    ELSE IF m_geom_it > Len(geom) \/ m_geom_it + 1 > Len(geom)
    THEN [r |-> "throw", cursor |-> m_cursor, it |-> m_geom_it,
          eit |-> m_elev_it, count |-> m_count]
    ELSE LET readz == Dimensions = 3 /\ m_elev_it <= Len(elev)
             x == m_cursor.x + decode_zigzag32(geom[m_geom_it])
             y == m_cursor.y + decode_zigzag32(geom[m_geom_it + 1])
         IN  [r |-> IF InCoordRange(x) /\ InCoordRange(y)
                    THEN "point" ELSE "overflow",
              cursor |-> unscaled_point(x, y,
                  IF readz THEN m_cursor.z + decode_zigzag64(elev[m_elev_it])
                  ELSE m_cursor.z),
              it |-> m_geom_it + 2,
              eit |-> IF readz THEN m_elev_it + 1 ELSE m_elev_it,
              count |-> m_count - 1]

\* next_point(): r is "assert", "throw", "point" or "overflow" (a sum that
\* is no value of the coordinate type: the signed addition overflows, which
\* is undefined); cursor, it, eit and count are m_cursor, m_geom_it,
\* m_elev_it and m_count afterwards, the cursor being the sum unwrapped.
next_point ==
    IF m_count = 0
    THEN [r |-> "assert", cursor |-> m_cursor, it |-> m_geom_it,
          eit |-> m_elev_it, count |-> m_count]
    ELSE IF m_geom_it > Len(geom) \/ m_geom_it + 1 > Len(geom)
    THEN [r |-> "throw", cursor |-> m_cursor, it |-> m_geom_it,
          eit |-> m_elev_it, count |-> m_count]
    ELSE LET readz == Dimensions = 3 /\ m_elev_it <= Len(elev)
             x == m_cursor.x + decode_zigzag32(geom[m_geom_it])
             y == m_cursor.y + decode_zigzag32(geom[m_geom_it + 1])
         IN  [r |-> IF InCoordRange(x) /\ InCoordRange(y)
                    THEN "point" ELSE "overflow",
              cursor |-> unscaled_point(x, y,
                  IF readz THEN m_cursor.z + elev[m_elev_it] ELSE m_cursor.z),
              it |-> m_geom_it + 2,
              eit |-> IF readz THEN m_elev_it + 1 ELSE m_elev_it,
              count |-> m_count - 1]

-----------------------------------------------------------------------------
(* The inputs of a decode call *)

\* Command words: id 0, MoveTo and LineTo with counts 0..2, ClosePath with
\* counts 1 and 2.
CmdWords ==
    {0} \cup {CommandWord(id, c) : id \in {MOVE_TO, LINE_TO}, c \in {0, 1, 2}}
        \cup {CommandWord(CLOSE_PATH, c) : c \in {1, 2}}

\* Parameter words: the zigzag codes of 0, -1 and 1.
ParamWords == {0, 1, 2}

\* Elevation deltas (raw, signed).
ElevWords == {-1, 2}

\* Attribute words: 10 is a number list with key 0; 0, 1 and 2 serve as
\* counts, scaling references, other type tags and raw values.
AttrWords == {0, 1, 2, 10}

SeqsUpTo(S, n) == UNION {[1..k -> S] : k \in 0..n}

\* Geometry with neither elevation nor attributes.
GeomInputs ==
    [Dimensions : {2}, elev : {<<>>}, dummyAttr : {TRUE}, attr : {<<>>},
     MaxGeometricAttributes : {0}, m_max_count : 1..MaxCountBound,
     lim : {[glen |-> MaxGeomLen, cmds |-> CmdWords, params |-> ParamWords]}]

\* Short geometry with an elevation range.
ElevInputs ==
    [Dimensions : {2, 3}, elev : SeqsUpTo(ElevWords, MaxElevLen) \ {<<>>},
     dummyAttr : {TRUE}, attr : {<<>>}, MaxGeometricAttributes : {0},
     m_max_count : {MaxCountBound},
     lim : {[glen |-> ShortGeomLen, cmds |-> CmdWords, params |-> {2}]}]

\* Short geometry with an attribute range.
AttrInputs ==
    [Dimensions : {2}, elev : {<<>>}, dummyAttr : {FALSE},
     attr : SeqsUpTo(AttrWords, MaxAttrLen),
     MaxGeometricAttributes : 0..MaxAttrSlots, m_max_count : {MaxCountBound},
     lim : {[glen |-> ShortGeomLen, cmds |-> CmdWords, params |-> {2}]}]

\* Attribute ranges with two attributes, keys 0 and 1: both well-formed;
\* the first without values; the second with fewer values than it declares;
\* and a word that is no attribute after two well-formed ones.
TwoAttrRanges ==
    {<<10, 1, 0, v, 26, 1, 1, w>> : v, w \in {0, 2}}
        \cup {<<10, 0, 0, 26, 2, 1, v, 1>> : v \in {0, 2}}
        \cup {<<10, 1, 0, 2, 26, 2, 1, 2>>, <<10, 1, 0, 2, 26, 1, 1, 2, 0>>}

\* Short geometry with a range of two attributes.
TwoAttrInputs ==
    [Dimensions : {2}, elev : {<<>>}, dummyAttr : {FALSE},
     attr : TwoAttrRanges,
     MaxGeometricAttributes : 0..MaxAttrSlots, m_max_count : {MaxCountBound},
     lim : {[glen |-> ShortGeomLen, cmds |-> CmdWords, params |-> {2}]}]

\* The zigzag code of a signed value.
encode_zigzag32(v) == IF v >= 0 THEN 2 * v ELSE -2 * v - 1

\* Geometry with the largest deltas the coordinate type allows, in rings of
\* up to MaxCountBound + 1 further points.
WideInputs ==
    [Dimensions : {2}, elev : {<<>>}, dummyAttr : {TRUE}, attr : {<<>>},
     MaxGeometricAttributes : {0}, m_max_count : {MaxCountBound + 1},
     lim : {[glen |-> MaxGeomLen,
             cmds |-> {CommandWord(MOVE_TO, 1),
                       CommandWord(LINE_TO, MaxCountBound + 1),
                       CommandWord(CLOSE_PATH, 1)},
             params |-> {0, encode_zigzag32(MinSigned(CoordBits)),
                         encode_zigzag32(MaxSigned(CoordBits))}]}]

Inputs ==
    GeomInputs \cup ElevInputs \cup AttrInputs \cup TwoAttrInputs
        \cup WideInputs

Kinds == {"point", "linestring", "polygon"}

FirstPc(k) == CASE k = "point" -> "pt_moveto"
                [] k = "linestring" -> "ls_attrs"
                [] k = "polygon" -> "pg_attrs"

NoPoint == [p |-> Origin, raw |-> Origin]

\* The decoder after construction, at the start of the decode call.
Init ==
    \E k \in Kinds, in \in Inputs :
        /\ kind = k
        /\ pc = FirstPc(k)
        /\ outcome = "running"
        /\ geom = <<>>
        /\ closed = FALSE
        /\ m_geom_it = 1
        /\ Dimensions = in.Dimensions
        /\ elev = in.elev
        /\ m_elev_it = 1
        /\ dummyAttr = in.dummyAttr
        /\ attr = in.attr
        /\ MaxGeometricAttributes = in.MaxGeometricAttributes
        /\ m_attrs = <<>>
        /\ m_size = 0
        /\ m_cursor = Origin
        /\ m_max_count = in.m_max_count
        /\ m_count = 0
        /\ first_point = NoPoint
        /\ start_point = Origin
        /\ last_point = Origin
        /\ sum = 0
        /\ trace = <<>>
        /\ cmds = <<>>
        /\ last_command = "none"
        /\ points = <<>>
        /\ nconvert = 0
        /\ lim = in.lim

-----------------------------------------------------------------------------
(* The geometry range *)

\* How many words ahead the driver's next test looks.
Need ==
    CASE pc \in {"pt_moveto", "ls_moveto", "ls_lineto", "pg_moveto",
                 "pg_lineto", "pg_close"} -> 1
      [] pc \in {"ls_first", "pg_start"} -> 2
      [] pc = "pt_loop" -> IF m_count > 0 THEN 2 ELSE 1
      [] pc \in {"ls_loop", "pg_loop"} -> IF m_count > 0 THEN 2 ELSE 0
      [] OTHER -> 0

\* Whether the range is fixed far enough for a test that looks k words ahead.
Determined(k) == closed \/ Len(geom) - m_geom_it + 1 >= k

\* The words the next position of the range is drawn from.
Words ==
    IF pc \in {"ls_first", "pg_start"}
       \/ (pc \in {"pt_loop", "ls_loop", "pg_loop"} /\ m_count > 0)
    THEN lim.params
    ELSE lim.cmds

\* The caller's range has one more word.
Supply(w) ==
    /\ outcome = "running"
    /\ ~Determined(Need)
    /\ Len(geom) < lim.glen
    /\ w \in Words
    /\ geom' = Append(geom, w)
    /\ UNCHANGED <<inputVars, polyVars, pc, outcome, closed, m_geom_it,
                   m_elev_it, m_attrs, m_size, m_cursor, m_count, first_point,
                   trace, cmds, nconvert, last_command, points>>

\* The caller's range ends here.
Close ==
    /\ outcome = "running"
    /\ ~Determined(Need)
    /\ closed' = TRUE
    /\ UNCHANGED <<inputVars, polyVars, pc, outcome, geom, m_geom_it,
                   m_elev_it, m_attrs, m_size, m_cursor, m_count, first_point,
                   trace, cmds, nconvert, last_command, points>>

-----------------------------------------------------------------------------
(* Steps of the drivers *)

\* The state a step works on.
Cur == [pc |-> pc, outcome |-> outcome, m_geom_it |-> m_geom_it,
        m_elev_it |-> m_elev_it, m_attrs |-> m_attrs, m_size |-> m_size,
        m_cursor |-> m_cursor, m_count |-> m_count,
        first_point |-> first_point, start_point |-> start_point,
        last_point |-> last_point, sum |-> sum, trace |-> trace,
        cmds |-> cmds, nconvert |-> nconvert, last_command |-> last_command,
        points |-> points]

Become(u) ==
    \E v \in {u} :
        /\ pc' = v.pc
        /\ outcome' = v.outcome
        /\ m_geom_it' = v.m_geom_it
        /\ m_elev_it' = v.m_elev_it
        /\ m_attrs' = v.m_attrs
        /\ m_size' = v.m_size
        /\ m_cursor' = v.m_cursor
        /\ m_count' = v.m_count
        /\ first_point' = v.first_point
        /\ start_point' = v.start_point
        /\ last_point' = v.last_point
        /\ sum' = v.sum
        /\ trace' = v.trace
        /\ cmds' = v.cmds
        /\ last_command' = v.last_command
        /\ points' = v.points
        /\ nconvert' = v.nconvert
        /\ UNCHANGED <<inputVars, geom, closed>>

\* next_command leaving the iterator where it was.
AfterCommand_stays(c) ==
    [Cur EXCEPT !.m_count = c.count, !.cmds = Examined, !.last_command = c.r]

\* The state after next_command returned or threw c.
AfterCommand(c) ==
    [Cur EXCEPT !.m_count = c.count, !.m_geom_it = c.it, !.cmds = Examined,
                !.last_command = c.r]

\* The state after next_point returned or threw p.
AfterPoint(p) ==
    [Cur EXCEPT !.m_cursor = p.cursor, !.m_geom_it = p.it,
                !.m_elev_it = p.eit, !.m_count = p.count,
                !.points = IF p.r \in {"point", "overflow"}
                           THEN Append(points, p.cursor) ELSE points]

Ended(u, how) == [u EXCEPT !.outcome = how]

\* How a failed next_command or next_point ends the call.
Failure(r) ==
    CASE r = "assert" -> "assertion"
      [] r = "overflow" -> "undefined"
      [] OTHER -> "geometry_exception"

\* A vertex callback cb(p) followed by the attribute loop, on state u.
Vertex(u, cb, p, raw) ==
    LET al == AttributeLoop(u.m_attrs, 1, <<>>, FALSE)
    IN  [u EXCEPT !.trace = u.trace \o <<EvPoint(cb, p, raw)>> \o al.evs,
                  !.m_attrs = al.attrs,
                  !.outcome = IF al.past THEN "undefined" ELSE u.outcome]

\* A visitor whose convert calls go uncounted.
Converted_never(u) == u

Converted(u) == [u EXCEPT !.nconvert = u.nconvert + 1]

Called(u, ev) == [u EXCEPT !.trace = Append(u.trace, ev)]

At(u, newpc) == [u EXCEPT !.pc = newpc]

(* decode_point *)

decode_point_MoveTo ==
    /\ pc = "pt_moveto" /\ outcome = "running" /\ Determined(1)
    /\ LET c == next_command(MOVE_TO)
           u == AfterCommand(c)
           ga == geometric_attribute_collection
       IN  Become(
             IF c.r # "true" THEN Ended(u, Failure(c.r))
             ELSE IF c.count = 0 THEN Ended(u, "geometry_exception")
             ELSE IF ~ga.ok THEN Ended(u, "format_exception")
             ELSE At(Called([u EXCEPT !.m_attrs = ga.attrs,
                                      !.m_size = ga.size],
                            EvBegin("points_begin", c.count)), "pt_loop"))

decode_point_Point ==
    /\ pc = "pt_loop" /\ outcome = "running" /\ count > 0 /\ Determined(2)
    /\ LET p == next_point
           u == AfterPoint(p)
       IN  Become(
             IF p.r # "point" THEN Ended(u, Failure(p.r))
             ELSE Vertex(Converted(u), "points_point", convert(p.cursor),
                         p.cursor))

decode_point_End ==
    /\ pc = "pt_loop" /\ outcome = "running" /\ count = 0 /\ Determined(1)
    /\ Become(
         IF ~done THEN Ended(Cur, "geometry_exception")
         ELSE At(Ended(Called(Cur, EvEnd("points_end", "")), "ok"), "return"))

(* decode_linestring *)

decode_linestring_Attributes ==
    /\ pc = "ls_attrs" /\ outcome = "running"
    /\ LET ga == geometric_attribute_collection
       IN  Become(
             IF ~ga.ok THEN Ended(Cur, "format_exception")
             ELSE At([Cur EXCEPT !.m_attrs = ga.attrs, !.m_size = ga.size],
                     "ls_moveto"))

\* decode_linestring's MoveTo step accepting every count but 0.
decode_linestring_MoveTo_positive ==
    /\ pc = "ls_moveto" /\ outcome = "running" /\ Determined(1)
    /\ LET c == next_command(MOVE_TO)
           u == AfterCommand(c)
       IN  Become(
             IF c.r = "false" THEN At(Ended(u, "ok"), "return")
             ELSE IF c.r # "true" THEN Ended(u, Failure(c.r))
             ELSE IF c.count = 0 THEN Ended(u, "geometry_exception")
             ELSE At(u, "ls_first"))

decode_linestring_MoveTo ==
    /\ pc = "ls_moveto" /\ outcome = "running" /\ Determined(1)
    /\ LET c == next_command(MOVE_TO)
           u == AfterCommand(c)
       IN  Become(
             IF c.r = "false" THEN At(Ended(u, "ok"), "return")
             ELSE IF c.r # "true" THEN Ended(u, Failure(c.r))
             ELSE IF c.count # 1 THEN Ended(u, "geometry_exception")
             ELSE At(u, "ls_first"))

decode_linestring_First ==
    /\ pc = "ls_first" /\ outcome = "running" /\ Determined(2)
    /\ LET p == next_point
           u == AfterPoint(p)
       IN  Become(
             IF p.r # "point" THEN Ended(u, Failure(p.r))
             ELSE At([Converted(u) EXCEPT !.first_point =
                         [p |-> convert(p.cursor), raw |-> p.cursor]],
                     "ls_lineto"))

\* decode_linestring's LineTo step announcing count() points.
decode_linestring_LineTo_short ==
    /\ pc = "ls_lineto" /\ outcome = "running" /\ Determined(1)
    /\ LET c == next_command(LINE_TO)
           u == AfterCommand(c)
       IN  Become(
             IF c.r # "true" THEN Ended(u, Failure(c.r))
             ELSE IF c.count = 0 THEN Ended(u, "geometry_exception")
             ELSE At(Vertex(Called(u, EvBegin("linestring_begin", c.count)),
                            "linestring_point", first_point.p, first_point.raw),
                     "ls_loop"))

\* decode_linestring's LineTo step without the test for a zero count.
decode_linestring_LineTo_zero ==
    /\ pc = "ls_lineto" /\ outcome = "running" /\ Determined(1)
    /\ LET c == next_command(LINE_TO)
           u == AfterCommand(c)
       IN  Become(
             IF c.r # "true" THEN Ended(u, Failure(c.r))
             ELSE At(Vertex(Called(u, EvBegin("linestring_begin", c.count + 1)),
                            "linestring_point", first_point.p, first_point.raw),
                     "ls_loop"))

decode_linestring_LineTo ==
    /\ pc = "ls_lineto" /\ outcome = "running" /\ Determined(1)
    /\ LET c == next_command(LINE_TO)
           u == AfterCommand(c)
       IN  Become(
             IF c.r # "true" THEN Ended(u, Failure(c.r))
             ELSE IF c.count = 0 THEN Ended(u, "geometry_exception")
             ELSE At(Vertex(Called(u, EvBegin("linestring_begin", c.count + 1)),
                            "linestring_point", first_point.p, first_point.raw),
                     "ls_loop"))

decode_linestring_Point ==
    /\ pc = "ls_loop" /\ outcome = "running" /\ count > 0 /\ Determined(2)
    /\ LET p == next_point
           u == AfterPoint(p)
       IN  Become(
             IF p.r # "point" THEN Ended(u, Failure(p.r))
             ELSE Vertex(Converted(u), "linestring_point", convert(p.cursor),
                         p.cursor))

decode_linestring_End ==
    /\ pc = "ls_loop" /\ outcome = "running" /\ count = 0
    /\ Become(At(Called(Cur, EvEnd("linestring_end", "")), "ls_moveto"))

(* decode_polygon *)

decode_polygon_Attributes ==
    /\ pc = "pg_attrs" /\ outcome = "running"
    /\ LET ga == geometric_attribute_collection
       IN  Become(
             IF ~ga.ok THEN Ended(Cur, "format_exception")
             ELSE At([Cur EXCEPT !.m_attrs = ga.attrs, !.m_size = ga.size],
                     "pg_moveto"))

\* decode_polygon's MoveTo step accepting every count but 0.
decode_polygon_MoveTo_positive ==
    /\ pc = "pg_moveto" /\ outcome = "running" /\ Determined(1)
    /\ LET c == next_command(MOVE_TO)
           u == AfterCommand(c)
       IN  Become(
             IF c.r = "false" THEN At(Ended(u, "ok"), "return")
             ELSE IF c.r # "true" THEN Ended(u, Failure(c.r))
             ELSE IF c.count = 0 THEN Ended(u, "geometry_exception")
             ELSE At(u, "pg_start"))

decode_polygon_MoveTo ==
    /\ pc = "pg_moveto" /\ outcome = "running" /\ Determined(1)
    /\ LET c == next_command(MOVE_TO)
           u == AfterCommand(c)
       IN  Become(
             IF c.r = "false" THEN At(Ended(u, "ok"), "return")
             ELSE IF c.r # "true" THEN Ended(u, Failure(c.r))
             ELSE IF c.count # 1 THEN Ended(u, "geometry_exception")
             ELSE At(u, "pg_start"))

decode_polygon_Start ==
    /\ pc = "pg_start" /\ outcome = "running" /\ Determined(2)
    /\ LET p == next_point
           u == AfterPoint(p)
       IN  Become(
             IF p.r # "point" THEN Ended(u, Failure(p.r))
             ELSE At([u EXCEPT !.sum = 0, !.start_point = p.cursor,
                               !.last_point = p.cursor],
                     "pg_lineto"))

decode_polygon_LineTo ==
    /\ pc = "pg_lineto" /\ outcome = "running" /\ Determined(1)
    /\ LET c == next_command(LINE_TO)
           u == AfterCommand(c)
       IN  Become(
             IF c.r # "true" THEN Ended(u, Failure(c.r))
             ELSE At(Vertex(Converted(
                              Called(u, EvBegin("ring_begin", c.count + 2))),
                            "ring_point", convert(start_point), start_point),
                     "pg_loop"))

\* A sum that is no value of the type of the shoelace sum is a signed
\* overflow, which is undefined: the call ends there, sum holding the exact
\* value.
decode_polygon_Point ==
    /\ pc = "pg_loop" /\ outcome = "running" /\ count > 0 /\ Determined(2)
    /\ LET p == next_point
           u == AfterPoint(p)
           s == sum + det(last_point, p.cursor)
       IN  Become(
             IF p.r # "point" THEN Ended(u, Failure(p.r))
             ELSE IF ~InSumRange(s)
             THEN Ended([u EXCEPT !.sum = s, !.last_point = p.cursor],
                        "undefined")
             ELSE Vertex(Converted(
                           [u EXCEPT !.sum = s, !.last_point = p.cursor]),
                         "ring_point", convert(p.cursor), p.cursor))

decode_polygon_LoopEnd ==
    /\ pc = "pg_loop" /\ outcome = "running" /\ count = 0
    /\ Become(At(Cur, "pg_close"))

\* decode_polygon's ClosePath step closing the ring with the last point.
decode_polygon_ClosePath_last ==
    /\ pc = "pg_close" /\ outcome = "running" /\ Determined(1)
    /\ LET c == next_command(CLOSE_PATH)
           u == AfterCommand(c)
           s == sum + det(last_point, start_point)
       IN  Become(
             IF c.r # "true" THEN Ended(u, Failure(c.r))
             ELSE IF ~InSumRange(s)
             THEN Ended([u EXCEPT !.sum = s], "undefined")
             ELSE At(Called(Called(Converted([u EXCEPT !.sum = s]),
                                   EvPoint("ring_point", convert(last_point),
                                           last_point)),
                            EvEnd("ring_end", ring_type(s))),
                     "pg_moveto"))

decode_polygon_ClosePath ==
    /\ pc = "pg_close" /\ outcome = "running" /\ Determined(1)
    /\ LET c == next_command(CLOSE_PATH)
           u == AfterCommand(c)
           s == sum + det(last_point, start_point)
       IN  Become(
             IF c.r # "true" THEN Ended(u, Failure(c.r))
             ELSE IF ~InSumRange(s)
             THEN Ended([u EXCEPT !.sum = s], "undefined")
             ELSE At(Called(Called(Converted([u EXCEPT !.sum = s]),
                                   EvPoint("ring_point", convert(start_point),
                                           start_point)),
                            EvEnd("ring_end", ring_type(s))),
                     "pg_moveto"))

-----------------------------------------------------------------------------

Next ==
    \/ \E w \in lim.cmds \cup lim.params : Supply(w)
    \/ Close
    \/ decode_point_MoveTo
    \/ decode_point_Point
    \/ decode_point_End
    \/ decode_linestring_Attributes
    \/ decode_linestring_MoveTo
    \/ decode_linestring_First
    \/ decode_linestring_LineTo
    \/ decode_linestring_Point
    \/ decode_linestring_End
    \/ decode_polygon_Attributes
    \/ decode_polygon_MoveTo
    \/ decode_polygon_Start
    \/ decode_polygon_LineTo
    \/ decode_polygon_Point
    \/ decode_polygon_LoopEnd
    \/ decode_polygon_ClosePath

Spec == Init /\ [][Next]_vars

-----------------------------------------------------------------------------
(* Reading the visitor trace *)

IsAttr(e) == e.cb \in {"attribute_value", "attribute_null"}

IsVertex(e) == e.cb \in {"points_point", "linestring_point", "ring_point"}

\* The callbacks other than the attribute callbacks.
Geo == SelectSeq(trace, LAMBDA e : ~IsAttr(e))

CountCb(s, cb) == Cardinality({i \in 1..Len(s) : s[i].cb = cb})

Shape(s) == [i \in 1..Len(s) |-> <<s[i].cb, s[i].n>>]

Rejected == outcome = "geometry_exception"

\* The index in s of the ring_begin of the ring that ends at index j.
BeginOf(s, j) ==
    CHOOSE i \in 1..j : /\ s[i].cb = "ring_begin"
                        /\ \A k \in (i + 1)..j : s[k].cb # "ring_begin"

\* The LineTo word of the ring that ends at index j of s: the second of the
\* three command words of that ring.
LineToOf(s, j) == cmds[3 * CountCb(SubSeq(s, 1, j), "ring_end") - 1]

Cross(a, b) == a.x * b.y - a.y * b.x

\* The sum of Cross over consecutive raw points of s[from..to].
RECURSIVE Shoelace(_, _, _)
Shoelace(s, from, to) ==
    IF from >= to THEN 0
    ELSE Cross(s[from].raw, s[from + 1].raw) + Shoelace(s, from + 1, to)

-----------------------------------------------------------------------------
(* C1: every point geometry decode_point accepts makes exactly the          *)
(* callbacks points_begin(n), n times points_point, points_end, where n is  *)
(* the count of the MoveTo word that starts the stream; a point decode      *)
(* never makes another begin or end callback.                               *)

C1_PointTrace ==
    kind = "point" =>
        /\ \A i \in 1..Len(Geo) :
              /\ Geo[i].cb \in {"points_begin", "points_point", "points_end"}
              /\ Geo[i].cb = "points_begin" <=> i = 1
              /\ Geo[i].cb = "points_end" => (i = Len(Geo) /\ outcome = "ok")
        /\ outcome = "ok" =>
              LET n == get_command_count(geom[1])
              IN  /\ get_command_id(geom[1]) = MOVE_TO
                  /\ Len(Geo) = n + 2
                  /\ Geo[1] = EvBegin("points_begin", n)
                  /\ \A i \in 2..(n + 1) : Geo[i].cb = "points_point"
                  /\ Geo[n + 2].cb = "points_end"

C1_Witness ==
    /\ kind = "point" /\ outcome = "ok"
    /\ get_command_count(geom[1]) = 2
    /\ CountCb(trace, "points_point") = 2

(* C2: decode_point ends with a geometry exception, and without            *)
(* points_end, whenever the geometry range or the elevation range still    *)
(* holds a value after the points the MoveTo declared have been consumed.  *)

C2_AdditionalData ==
    ( /\ kind = "point" /\ outcome # "running"
      /\ pc \in {"pt_loop", "return"} /\ m_count = 0
      /\ (m_geom_it <= Len(geom) \/ m_elev_it <= Len(elev)) )
    => /\ Rejected
       /\ CountCb(trace, "points_end") = 0

C2_Witness ==
    /\ kind = "point" /\ Rejected /\ pc = "pt_loop" /\ m_count = 0
    /\ Dimensions = 3
    /\ closed /\ m_geom_it > Len(geom)
    /\ m_elev_it = 2 /\ Len(elev) = 2
    /\ CountCb(trace, "points_point") = 1

(* C3: every stream decode_linestring accepts is a sequence of pairs       *)
(* MoveTo(1), LineTo(k) with k >= 1, and the callbacks are, pair by pair   *)
(* in stream order, linestring_begin(1+k), 1+k times linestring_point,     *)
(* linestring_end.                                                         *)

RECURSIVE LinestringShape(_)
LinestringShape(i) ==
    IF i + 3 > Len(geom) THEN <<>>
    ELSE LET k == get_command_count(geom[i + 3])
         IN  <<<<"linestring_begin", 1 + k>>>>
               \o [j \in 1..(1 + k) |-> <<"linestring_point", 0>>]
               \o <<<<"linestring_end", 0>>>>
               \o LinestringShape(i + 4 + 2 * k)

C3_LinestringTrace ==
    (kind = "linestring" /\ outcome = "ok") =>
        /\ Shape(Geo) = LinestringShape(1)
        /\ \A i \in 1..Len(Geo) :
              Geo[i].cb = "linestring_begin" => Geo[i].n >= 2

C3_Witness ==
    /\ kind = "linestring" /\ outcome = "ok"
    /\ CountCb(trace, "linestring_end") = 2
    /\ CountCb(trace, "linestring_point") = 4

(* C4: every ring decode_polygon completes, with LineTo count n, is        *)
(* ring_begin(n+2), n+2 times ring_point, ring_end, and its first and its  *)
(* last ring_point carry the same point, the converted start point.        *)

C4_RingTrace ==
    kind = "polygon" =>
        \A j \in 1..Len(Geo) :
            Geo[j].cb = "ring_end" =>
                LET i == BeginOf(Geo, j)
                    n == get_command_count(LineToOf(Geo, j))
                IN  /\ Geo[i].n = n + 2
                    /\ j - i - 1 = n + 2
                    /\ \A k \in (i + 1)..(j - 1) : Geo[k].cb = "ring_point"
                    /\ Geo[i + 1].p = Geo[j - 1].p
                    /\ Geo[j - 1].p = convert(Geo[i + 1].raw)

C4_Witness ==
    /\ kind = "polygon" /\ outcome = "ok"
    /\ CountCb(trace, "ring_end") = 1
    /\ CountCb(trace, "ring_point") = 4
    /\ last_point # start_point

(* C5: ring_end of every completed ring carries outer, inner or invalid    *)
(* as the sum of x_i*y_i+1 - x_i+1*y_i over the ring's consecutive raw     *)
(* points (start point, LineTo points, start point again) is positive,     *)
(* negative or zero.                                                       *)

C5_RingType ==
    kind = "polygon" =>
        \A j \in 1..Len(Geo) :
            Geo[j].cb = "ring_end" =>
                LET i == BeginOf(Geo, j)
                    area2 == Shoelace(Geo, i + 1, j - 1)
                IN  /\ Geo[j].rt = "outer" <=> area2 > 0
                    /\ Geo[j].rt = "inner" <=> area2 < 0
                    /\ Geo[j].rt = "invalid" <=> area2 = 0

C5_Witness ==
    /\ kind = "polygon" /\ outcome = "ok"
    /\ Len(Geo) = 6
    /\ Geo[6] = EvEnd("ring_end", "inner")
    /\ Shoelace(Geo, 2, 5) = -1

(* C6: in decode_linestring and decode_polygon a MoveTo word whose count   *)
(* is not 1 ends the call with a geometry exception, and no begin or point *)
(* callback is made for the linestring or ring it would have started.      *)

MoveToNotOne(w) == get_command_id(w) = MOVE_TO /\ get_command_count(w) # 1

C6_MoveToCount ==
    kind \in {"linestring", "polygon"} =>
        \A i \in 1..Len(cmds) :
            MoveToNotOne(cmds[i]) =>
                /\ i = Len(cmds)
                /\ Rejected
                /\ pc \in {"ls_moveto", "pg_moveto"} =>
                      \/ trace = <<>>
                      \/ trace[Len(trace)].cb \in {"linestring_end", "ring_end"}

C6_Witness ==
    /\ kind = "polygon" /\ Rejected /\ pc = "pg_moveto"
    /\ Len(cmds) = 4
    /\ cmds[4] = CommandWord(MOVE_TO, 2)
    /\ m_max_count = 2
    /\ CountCb(trace, "ring_end") = 1

(* C7: a MoveTo word with count 0 in decode_point, and a LineTo word with  *)
(* count 0 in decode_linestring, end the call with a geometry exception    *)
(* before points_begin, respectively the linestring_begin of that          *)
(* linestring, is called.                                                  *)

C7_ZeroCount ==
    /\ (kind = "point" /\ cmds # <<>> /\ cmds[1] = CommandWord(MOVE_TO, 0))
          => (Rejected /\ trace = <<>>)
    /\ kind = "linestring" =>
          \A i \in 1..Len(cmds) :
              cmds[i] = CommandWord(LINE_TO, 0) =>
                  /\ i = Len(cmds)
                  /\ Rejected
                  /\ CountCb(trace, "linestring_begin")
                        = CountCb(trace, "linestring_end")

C7_Witness ==
    /\ kind = "linestring" /\ Rejected /\ pc = "ls_lineto"
    /\ Len(cmds) = 4
    /\ cmds[4] = CommandWord(LINE_TO, 0)
    /\ CountCb(trace, "linestring_end") = 1

(* C8: in every driver a ClosePath word whose count is not 1, once         *)
(* next_command examines it, ends the call with a geometry exception; in   *)
(* decode_polygon the ring it would have closed gets no ring_end.          *)

BadClosePath(w) == get_command_id(w) = CLOSE_PATH /\ get_command_count(w) # 1

C8_ClosePathCount ==
    \A i \in 1..Len(cmds) :
        BadClosePath(cmds[i]) =>
            /\ i = Len(cmds)
            /\ Rejected
            /\ pc = "pg_close" =>
                  CountCb(trace, "ring_begin") = CountCb(trace, "ring_end") + 1

C8_Witness ==
    /\ kind = "polygon" /\ Rejected /\ pc = "pg_close"
    /\ cmds[Len(cmds)] = CommandWord(CLOSE_PATH, 2)
    /\ CountCb(trace, "ring_point") = 3
    /\ CountCb(trace, "ring_end") = 0

(* C9: every vertex callback other than a ring's closing ring_point is     *)
(* followed by exactly one attribute callback per registered attribute     *)
(* (m_size of them), the closing ring_point by none, and a decode with an  *)
(* empty or absent attribute range makes no attribute callback.            *)

Closing(i) ==
    /\ trace[i].cb = "ring_point"
    /\ i < Len(trace)
    /\ trace[i + 1].cb = "ring_end"

C9_AttributeCallbacks ==
    /\ \A i \in 1..Len(trace) :
          IsVertex(trace[i]) =>
              IF Closing(i) THEN TRUE
              ELSE /\ i + m_size <= Len(trace)
                   /\ \A k \in 1..m_size : IsAttr(trace[i + k])
                   /\ i + m_size + 1 <= Len(trace)
                         => ~IsAttr(trace[i + m_size + 1])
    /\ (dummyAttr \/ attr = <<>>) => \A i \in 1..Len(trace) : ~IsAttr(trace[i])

(* C10: at the v-th vertex a registered attribute whose v-th raw value is  *)
(* 0 (or that has no v-th value) gets attribute_null(key), and one whose   *)
(* v-th raw value r is not 0 gets attribute_value with the sum of          *)
(* zigzag(r-1) over its non-zero raw values up to the v-th; the            *)
(* accumulated value is that sum over the values consumed.                 *)

\* Where the values of the i-th attribute of the range start: after its
\* three header words.
RECURSIVE ValuesAt(_)
ValuesAt(i) == IF i = 1 THEN 4 ELSE ValuesAt(i - 1) + attr[ValuesAt(i - 1) - 2] + 3

\* The sum of the deltas of the first v values from position s on.
RECURSIVE DeltaSum(_, _)
DeltaSum(s, v) ==
    IF v = 0 THEN 0
    ELSE DeltaSum(s, v - 1)
           + (IF attr[s + v - 1] = 0 THEN 0
              ELSE decode_zigzag64(attr[s + v - 1] - 1))

\* The indices of trace of the vertex callbacks followed by attributes.
Vertices == {i \in 1..Len(trace) : IsVertex(trace[i]) /\ ~Closing(i)}

Min(a, b) == IF a < b THEN a ELSE b

C10_AttributeValues ==
    \A i \in 1..m_size :
        LET s == ValuesAt(i)
            declared == attr[s - 2]
            key == attr[s - 3] \div 16
            scaling == attr[s - 1]
        IN  /\ m_attrs[i].value
                  = DeltaSum(s, Min(Cardinality(Vertices), declared))
            /\ \A pos \in Vertices :
                  LET v == Cardinality({q \in Vertices : q <= pos})
                  IN  trace[pos + i] =
                        IF v <= declared /\ attr[s + v - 1] # 0
                        THEN call_points_attr(key, scaling, DeltaSum(s, v))
                        ELSE call_points_null_attr(key)

C10_Witness ==
    /\ kind = "point" /\ outcome = "ok"
    /\ attr = <<10, 2, 1, 2, 0>>
    /\ m_size = 1
    /\ Len(trace) = 6
    /\ trace[3] = call_points_attr(0, 1, -1)
    /\ trace[5] = call_points_null_attr(0)
    /\ m_attrs[1].value = -1

-----------------------------------------------------------------------------
(* What the decoder has consumed *)

\* The number of vertex callbacks made so far.
NVertices == Cardinality({i \in 1..Len(trace) : IsVertex(trace[i])})

\* The number of points next_point has returned.
npoints == Len(points)

\* The command words next_command has accepted: those it examined, less the
\* one it threw on.
AcceptedCmds ==
    IF last_command = "throw" THEN SubSeq(cmds, 1, Len(cmds) - 1) ELSE cmds

-----------------------------------------------------------------------------
(* C11: a decode call that is accepted has called convert exactly once for  *)
(* each vertex it emitted (a ring's start point twice, being emitted        *)
(* twice); at every moment, and so in a rejected call as well, convert has  *)
(* been called for every vertex emitted and for at most one point more,     *)
(* namely the MoveTo point of a linestring that decode_linestring converts  *)
(* before it has examined the LineTo command and emits only after.          *)

C11_ConvertPerVertex ==
    /\ NVertices <= nconvert
    /\ nconvert <= NVertices + 1
    /\ nconvert # NVertices => kind = "linestring" /\ pc = "ls_lineto"
    /\ outcome = "ok" => nconvert = NVertices

\* A second linestring rejected at its LineTo: its MoveTo point was
\* converted and never emitted.
C11_Witness ==
    /\ kind = "linestring"
    /\ Rejected
    /\ CountCb(trace, "linestring_end") = 1
    /\ nconvert = NVertices + 1

\* C11 as stated: at the end of every decode call, accepted or rejected,
\* the number of convert calls equals the number of vertices emitted.
C11_ConvertPerVertex_Rejected ==
    outcome # "running" => nconvert = NVertices

-----------------------------------------------------------------------------
(* C12: the maximum bounds the count of every single MoveTo or LineTo       *)
(* command that next_command accepts, so next_point returns at most the     *)
(* maximum times the number of accepted MoveTo and LineTo commands points;  *)
(* every point takes two integers of the stream, so the total is at most    *)
(* half the stream length, and at most the maximum whenever the maximum is  *)
(* no less than half the stream length.                                     *)

\* The MoveTo and LineTo words among the accepted command words.
CountedCmds ==
    SelectSeq(AcceptedCmds,
              LAMBDA w : get_command_id(w) \in {MOVE_TO, LINE_TO})

C12_ConsumedWithinBounds ==
    /\ \A i \in 1..Len(CountedCmds) :
          get_command_count(CountedCmds[i]) <= m_max_count
    /\ npoints <= m_max_count * Len(CountedCmds)
    /\ 2 * npoints + Len(AcceptedCmds) = m_geom_it - 1
    /\ 2 * npoints <= Len(geom)
    /\ m_max_count >= Len(geom) \div 2 => npoints <= m_max_count

\* An accepted call with maximum 1 that consumed more than one point.
C12_Witness ==
    /\ outcome = "ok"
    /\ m_max_count = 1
    /\ npoints > m_max_count

\* C12 as stated: the total number of points consumed never exceeds the
\* maximum, whatever the maximum.
C12_TotalWithinMax == npoints <= m_max_count

-----------------------------------------------------------------------------
(* C13: on an empty geometry stream no driver makes a callback;             *)
(* decode_point rejects it with a structural error; decode_linestring and   *)
(* decode_polygon accept it when the geometric attribute range parses, and  *)
(* fail with a format error, before they look at the geometry, when it      *)
(* does not.                                                                *)

\* The call has ended and the range holds no word: it was found to end at
\* its first position, or the call ended before looking at it, as it then
\* does on the empty range as well.
EndedOnEmpty == outcome # "running" /\ geom = <<>>

C13_EmptyGeometry ==
    EndedOnEmpty =>
        /\ trace = <<>>
        /\ kind = "point" => Rejected
        /\ kind # "point" =>
              outcome = IF geometric_attribute_collection.ok
                        THEN "ok" ELSE "format_exception"

\* decode_polygon, reading attributes from a real range, accepted the empty
\* stream.
C13_Witness ==
    /\ kind = "polygon"
    /\ EndedOnEmpty
    /\ closed
    /\ ~dummyAttr
    /\ outcome = "ok"

\* C13 as stated: decode_linestring and decode_polygon accept every empty
\* geometry stream.
C13_EmptyAccepted ==
    EndedOnEmpty =>
        /\ trace = <<>>
        /\ kind = "point" => Rejected
        /\ kind # "point" => outcome = "ok"

-----------------------------------------------------------------------------
(* C14: every decode call on a finite geometry stream terminates: while the *)
(* call runs a step of it is always possible, and every step of a driver    *)
(* either ends the call, or consumes at least one integer of the geometry   *)
(* stream, or leaves a loop that the driver re-enters only after consuming  *)
(* one, so a measure bounded by twice the stream length plus two decreases  *)
(* with every step.                                                         *)

\* The integers of the stream not yet consumed, at most.
Remaining == lim.glen - (m_geom_it - 1)

\* A bound on the number of steps the call can still take.
Rank ==
    IF outcome # "running" THEN 0
    ELSE 2 * Remaining + 1
           + (IF pc \in {"ls_attrs", "pg_attrs", "ls_loop", "pg_loop"}
              THEN 1 ELSE 0)

\* A step of a driver, as opposed to the caller's range becoming known.
DriverStep == geom' = geom /\ closed' = closed

C14_Terminates ==
    /\ [](Rank >= 0 /\ (outcome = "running" => ENABLED Next))
    /\ [][DriverStep => Rank' < Rank]_vars

\* decode_polygon returned after two rings.
C14_Witness ==
    /\ kind = "polygon"
    /\ outcome = "ok"
    /\ pc = "return"
    /\ CountCb(trace, "ring_end") = 2
    /\ Rank = 0

-----------------------------------------------------------------------------
(* C15: in every reachable state, the state left behind by a failed         *)
(* next_command included, the remaining count is non-zero only if the most  *)
(* recent next_command succeeded with a MoveTo or LineTo word and not all   *)
(* of that command's points have been consumed; the remaining count is then *)
(* at most the count of that word.                                          *)

\* The word the most recent next_command examined.
LastExamined == cmds[Len(cmds)]

C15_CountOnlyAfterSuccess ==
    m_count # 0 =>
        /\ last_command = "true"
        /\ cmds # <<>>
        /\ get_command_id(LastExamined) \in {MOVE_TO, LINE_TO}
        /\ m_count <= get_command_count(LastExamined)

-----------------------------------------------------------------------------
(* C16: on every input, valid or malformed, and in every driver, the        *)
(* remaining count is 0 whenever the driver is about to call next_command   *)
(* and greater than 0 whenever it is about to call next_point; no call      *)
(* ends in an assertion failure.                                            *)

\* Where the next step of the driver calls next_command.
CommandPcs == {"pt_moveto", "ls_moveto", "ls_lineto", "pg_moveto",
               "pg_lineto", "pg_close"}

\* Where the next step of the driver calls next_point.
PointCall ==
    \/ pc \in {"ls_first", "pg_start"}
    \/ pc \in {"pt_loop", "ls_loop", "pg_loop"} /\ count > 0

C16_Preconditions ==
    /\ outcome # "assertion"
    /\ last_command # "assert"
    /\ outcome = "running" /\ pc \in CommandPcs => m_count = 0
    /\ outcome = "running" /\ PointCall => m_count > 0

\* A polygon rejected where its ClosePath is required, after points and
\* commands have been read.
C16_Witness ==
    /\ kind = "polygon"
    /\ Rejected
    /\ pc = "pg_close"
    /\ npoints >= 2
    /\ last_command \in {"false", "throw"}

-----------------------------------------------------------------------------
(* C17: decode_polygon consumes every ring as MoveTo, its point, LineTo,    *)
(* its points, ClosePath, in that order: the command words it accepts have  *)
(* the ids MoveTo, LineTo, ClosePath in rotation; ring_end has been         *)
(* delivered exactly for the rings whose three commands were accepted; a    *)
(* call that stops where LineTo or ClosePath is required (the stream        *)
(* ended, or the word there was refused) is rejected with a structural      *)
(* error with that ring's ring_end undelivered; a word refused where a new  *)
(* ring may start is rejected likewise, and only the end of the stream      *)
(* there is accepted. (A call that ran into an arithmetic overflow has no   *)
(* defined behaviour and is not spoken of.)                                 *)

RingIds == <<MOVE_TO, LINE_TO, CLOSE_PATH>>

\* The number of command words accepted for the ring in progress.
InRing == Len(AcceptedCmds) % 3

\* The number of rings whose MoveTo command has been accepted.
RingsStarted ==
    Len(SelectSeq(AcceptedCmds, LAMBDA w : get_command_id(w) = MOVE_TO))

C17_RingOrder ==
    (kind = "polygon" /\ outcome # "undefined") =>
        /\ \A i \in 1..Len(AcceptedCmds) :
              get_command_id(AcceptedCmds[i]) = RingIds[((i - 1) % 3) + 1]
        /\ CountCb(trace, "ring_end") = Len(AcceptedCmds) \div 3
        /\ (outcome # "running" /\ pc \in {"pg_lineto", "pg_close"}) =>
              /\ Rejected
              /\ last_command \in {"false", "throw"}
              /\ InRing = IF pc = "pg_lineto" THEN 1 ELSE 2
              /\ CountCb(trace, "ring_end") = RingsStarted - 1
        /\ (outcome # "running" /\ pc = "pg_moveto") =>
              /\ Rejected
              /\ \/ last_command = "throw"
                 \/ last_command = "true" /\ get_command_count(LastExamined) # 1
        /\ (last_command = "throw" /\ pc = "pg_moveto"
              /\ get_command_id(LastExamined) # MOVE_TO) => Rejected
        /\ last_command \in {"false", "throw"} => outcome # "running"
        /\ outcome = "ok" =>
              pc = "return" /\ last_command = "false" /\ InRing = 0

\* A second ring whose points were read and whose ClosePath is missing: the
\* stream ended there, and only the first ring's ring_end was delivered.
C17_Witness ==
    /\ kind = "polygon"
    /\ Rejected
    /\ pc = "pg_close"
    /\ last_command = "false"
    /\ RingsStarted = 2
    /\ CountCb(trace, "ring_begin") = 2
    /\ CountCb(trace, "ring_end") = 1

-----------------------------------------------------------------------------
(* C18: a next_command call for MoveTo or LineTo that finds a word with the *)
(* expected id throws a structural error if and only if the count of the    *)
(* word is strictly greater than the maximum; a count equal to the maximum  *)
(* is accepted, the count becoming the remaining count and the iterator     *)
(* moving on by one; so no accepted MoveTo or LineTo word has a count above *)
(* the maximum.                                                             *)

\* The command id the next_command call of the step at pc expects.
ExpectedId ==
    CASE pc \in {"pt_moveto", "ls_moveto", "pg_moveto"} -> MOVE_TO
      [] pc \in {"ls_lineto", "pg_lineto"} -> LINE_TO
      [] OTHER -> CLOSE_PATH

\* A step in which next_command, called for MoveTo or LineTo, finds a word
\* with that id.
CountedCall ==
    /\ DriverStep
    /\ outcome = "running"
    /\ pc \in CommandPcs
    /\ ExpectedId # CLOSE_PATH
    /\ m_geom_it <= Len(geom)
    /\ get_command_id(geom[m_geom_it]) = ExpectedId
    /\ cmds' # cmds

C18_CountAgainstMax ==
    /\ [](\A i \in 1..Len(CountedCmds) :
             get_command_count(CountedCmds[i]) <= m_max_count)
    /\ [][CountedCall =>
            LET n == get_command_count(geom[m_geom_it])
            IN  /\ last_command' = IF n > m_max_count THEN "throw" ELSE "true"
                /\ n > m_max_count =>
                      outcome' = "geometry_exception" /\ m_geom_it' = m_geom_it
                /\ n <= m_max_count =>
                      m_count' = n /\ m_geom_it' = m_geom_it + 1]_vars

\* next_command accepted a MoveTo whose count equals the maximum.
C18_Witness ==
    /\ kind = "point"
    /\ m_max_count = MaxCountBound
    /\ cmds = <<CommandWord(MOVE_TO, MaxCountBound)>>
    /\ last_command = "true"
    /\ m_count = m_max_count
    /\ outcome = "running"

-----------------------------------------------------------------------------
(* C19: the k-th point next_point returns within one decode call is the     *)
(* component-wise sum, from (0, 0), of the first k zigzag-decoded (dx, dy)  *)
(* pairs of the stream; the cursor is the last point returned (the origin   *)
(* before the first), so no command, linestring or ring resets or changes   *)
(* it.                                                                      *)

\* The parameter words among the consumed words of the range from position
\* i on, left of them still belonging to the command word before i: a
\* MoveTo or LineTo word with count n is followed by 2n parameter words.
RECURSIVE ParamsFrom(_, _)
ParamsFrom(i, left) ==
    IF i >= m_geom_it THEN <<>>
    ELSE IF left > 0 THEN <<geom[i]>> \o ParamsFrom(i + 1, left - 1)
    ELSE ParamsFrom(i + 1,
                    IF get_command_id(geom[i]) \in {MOVE_TO, LINE_TO}
                    THEN 2 * get_command_count(geom[i]) ELSE 0)

Params == ParamsFrom(1, 0)

\* The sum of the first k decoded dx (off = 1) or dy (off = 0) of ps.
RECURSIVE SumOfDeltas(_, _, _)
SumOfDeltas(ps, k, off) ==
    IF k = 0 THEN 0
    ELSE SumOfDeltas(ps, k - 1, off) + decode_zigzag32(ps[2 * k - off])

C19_DeltaAccumulation ==
    /\ 2 * Len(points) = Len(Params)
    /\ \A k \in 1..Len(points) :
          /\ points[k].x = SumOfDeltas(Params, k, 1)
          /\ points[k].y = SumOfDeltas(Params, k, 0)
    /\ m_cursor = IF points = <<>> THEN Origin ELSE points[Len(points)]

\* Two linestrings decoded, the fourth point being the sum of four pairs
\* (1, -1).
C19_Witness ==
    /\ kind = "linestring"
    /\ outcome = "ok"
    /\ CountCb(trace, "linestring_end") = 2
    /\ Len(points) = 4
    /\ points[4].x = 4
    /\ points[4].y = -4

-----------------------------------------------------------------------------
(* C20: a next_point call made when fewer than two integers remain in the   *)
(* geometry stream throws a structural error and changes neither the        *)
(* cursor, nor the remaining count, nor either iterator; any other          *)
(* next_point call consumes exactly two integers of the geometry stream,    *)
(* decrements the remaining count by exactly one and returns a point.       *)

\* A step in which the driver calls next_point.
PointStep == DriverStep /\ outcome = "running" /\ PointCall

C20_NextPointFrame ==
    [][PointStep =>
         IF Len(geom) - (m_geom_it - 1) < 2
         THEN /\ outcome' = "geometry_exception"
              /\ UNCHANGED <<m_cursor, m_count, m_geom_it, m_elev_it, points,
                             trace>>
         ELSE /\ outcome' # "geometry_exception"
              /\ m_geom_it' = m_geom_it + 2
              /\ m_count' = m_count - 1
              /\ Len(points') = Len(points) + 1
              /\ m_cursor' = points'[Len(points')]]_vars

\* A multipoint rejected at its second point, of which only one integer is
\* there: the cursor and the count are as the first point left them.
C20_Witness ==
    /\ kind = "point"
    /\ Rejected
    /\ pc = "pt_loop"
    /\ Len(geom) = m_geom_it
    /\ m_count = 1
    /\ Len(points) = 1
    /\ m_cursor = points[1]
    /\ m_cursor # Origin

-----------------------------------------------------------------------------
(* C21: parsing the geometric attribute header fails with a format error    *)
(* exactly when, for one of the first MaxGeometricAttributes attributes of  *)
(* the range, the type tag is not 10, or the range ends right after the     *)
(* complex value, the count or the scaling reference, or fewer values       *)
(* follow than the count declares; a range that ends exactly after the      *)
(* last declared value is accepted, and attributes beyond the slot bound    *)
(* are neither registered nor validated.                                    *)

\* Whether the attribute that starts at position it, the n-th of the range,
\* or a later one within the slot bound, is malformed.
RECURSIVE Malformed(_, _)
Malformed(it, n) ==
    IF it > Len(attr) \/ n > MaxGeometricAttributes THEN FALSE
    ELSE \/ attr[it] % 16 # 10
         \/ Len(attr) <= it + 2
         \/ Len(attr) - (it + 2) < attr[it + 1]
         \/ Malformed(it + 3 + attr[it + 1], n + 1)

\* The number of attributes a well-formed range registers from position it
\* on, n - 1 slots being filled.
RECURSIVE Registered(_, _)
Registered(it, n) ==
    IF it > Len(attr) \/ n > MaxGeometricAttributes THEN 0
    ELSE 1 + Registered(it + 3 + attr[it + 1], n + 1)

\* The position of the complex value of the i-th attribute of the range.
RECURSIVE HeaderAt(_)
HeaderAt(i) ==
    IF i = 1 THEN 1 ELSE HeaderAt(i - 1) + 3 + attr[HeaderAt(i - 1) + 1]

\* The attribute header has been parsed in this call: the constructor threw,
\* or the driver is past the place where it constructs the collection.
HeaderParsed ==
    \/ outcome = "format_exception"
    \/ pc \notin {"pt_moveto", "ls_attrs", "pg_attrs"}

C21_HeaderParsing ==
    ~dummyAttr =>
        /\ geometric_attribute_collection.ok <=> ~Malformed(1, 1)
        /\ outcome = "format_exception" <=> (HeaderParsed /\ Malformed(1, 1))
        /\ (HeaderParsed /\ ~Malformed(1, 1)) =>
              /\ m_size = Registered(1, 1)
              /\ Len(m_attrs) = MaxGeometricAttributes
              /\ \A i \in 1..MaxGeometricAttributes :
                    IF i <= m_size
                    THEN LET h == HeaderAt(i)
                         IN  /\ m_attrs[i].key = attr[h] \div 16
                             /\ m_attrs[i].scaling = attr[h + 2]
                             /\ m_attrs[i].it + m_attrs[i].count
                                   = h + 3 + attr[h + 1]
                             /\ h + 2 + attr[h + 1] <= Len(attr)
                    ELSE /\ m_attrs[i].key = InvalidIndex
                         /\ m_attrs[i].count = 0

\* One slot: the first attribute, with one value, is registered; what
\* follows it is no attribute (its type tag is not 10) and is ignored.
C21_Witness ==
    /\ ~dummyAttr
    /\ MaxGeometricAttributes = 1
    /\ Len(attr) = 5
    /\ attr[1] = 10
    /\ attr[2] = 1
    /\ attr[5] % 16 # 10
    /\ HeaderParsed
    /\ m_size = 1
    /\ m_attrs[1].it = 5
    /\ outcome = "ok"

-----------------------------------------------------------------------------
(* C22: in decode_polygon neither the det of two consecutive points whose   *)
(* coordinates are values of the coordinate type, nor the running shoelace  *)
(* sum over such points, ever leaves the range of the sum's type, which is  *)
(* twice as wide as a coordinate: the sum kept is the exact value.          *)

\* All points returned so far are values of the coordinate type.
PointsInRange ==
    \A k \in 1..Len(points) :
        InCoordRange(points[k].x) /\ InCoordRange(points[k].y)

C22_SumInRange ==
    (kind = "polygon" /\ PointsInRange) =>
        /\ \A k \in 1..(Len(points) - 1) :
              InSumRange(det(points[k], points[k + 1]))
        /\ InSumRange(det(last_point, start_point))
        /\ InSumRange(sum)

-----------------------------------------------------------------------------
(* C23: in a 3D decoder every next_point that finds data in the elevation   *)
(* range consumes exactly one elevation integer and adds it, raw, to z;     *)
(* once the elevation range is exhausted later points keep the last z, and  *)
(* the exhaustion is no error; in a 2D decoder the elevation range is never *)
(* read and z is 0 for every point.                                         *)

\* The sum of the first n raw elevation values.
RECURSIVE ElevSum(_)
ElevSum(n) == IF n = 0 THEN 0 ELSE ElevSum(n - 1) + elev[n]

C23_Elevation ==
    /\ [](/\ \A k \in 1..Len(points) :
               points[k].z = IF Dimensions = 3
                             THEN ElevSum(Min(k, Len(elev))) ELSE 0
          /\ m_elev_it = IF Dimensions = 3
                         THEN Min(Len(points), Len(elev)) + 1 ELSE 1)
    /\ [][(PointStep /\ Len(geom) - (m_geom_it - 1) >= 2) =>
            /\ outcome' \notin {"geometry_exception", "assertion"}
            /\ IF Dimensions = 3 /\ m_elev_it <= Len(elev)
               THEN /\ m_elev_it' = m_elev_it + 1
                    /\ m_cursor'.z = m_cursor.z + elev[m_elev_it]
               ELSE /\ m_elev_it' = m_elev_it
                    /\ m_cursor'.z = m_cursor.z]_vars

\* A 3D multipoint of two points with one elevation value: the second point
\* keeps the z of the first, and the call is accepted.
C23_Witness ==
    /\ kind = "point"
    /\ Dimensions = 3
    /\ Len(elev) = 1
    /\ Len(points) = 2
    /\ points[1].z = elev[1]
    /\ points[2].z = elev[1]
    /\ m_elev_it = 2
    /\ outcome = "ok"

-----------------------------------------------------------------------------
(* C24: after a successfully parsed attribute header no get_next_value call *)
(* on an attribute reads at or beyond the end of the attribute range: an    *)
(* attribute with values left has all of them inside the range, so that it  *)
(* reads at most its declared count of values, and an attribute whose count *)
(* is 0 returns false without reading or changing anything.                 *)

C24_ReadsInsideRange ==
    (~dummyAttr /\ HeaderParsed /\ outcome # "format_exception") =>
        /\ outcome # "undefined"
        /\ \A i \in 1..Len(m_attrs) :
              LET a == m_attrs[i]
                  g == get_next_value(a)
              IN  /\ a.count >= 0
                  /\ a.count > 0 =>
                        /\ a.it + a.count - 1 <= Len(attr)
                        /\ ~g.past
                        /\ g.a.it = a.it + 1
                        /\ g.a.count = a.count - 1
                  /\ a.count = 0 =>
                        g = [a |-> a, ret |-> FALSE, past |-> FALSE]

\* Two registered attributes with one value each, read at the first of two
\* points; at the second point both are exhausted, the second one standing
\* at the end of the range, and nothing is read.
C24_Witness ==
    /\ kind = "point"
    /\ ~dummyAttr
    /\ m_size = 2
    /\ m_attrs[1].count = 0
    /\ m_attrs[2].count = 0
    /\ m_attrs[2].it = Len(attr) + 1
    /\ CountCb(trace, "points_point") = 2
    /\ CountCb(trace, "attribute_null") >= 2
    /\ outcome = "ok"

====
